---- MODULE Spec2Model ----
(***************************************************************************)
(* Model of the 2Q cache of package easy_lru_cache (cache.go) and of the   *)
(* bounded LRU store of the same package it is built on.                   *)
(*                                                                         *)
(* Spec      : one client calling the public operations one after another. *)
(* SpecLRU   : one client using a bounded LRU store on its own, either the *)
(*             lru of the package or the LRU of internal/lru.              *)
(* SpecConc  : several goroutines calling them concurrently, each          *)
(*             operation split at its lock acquisitions and store calls.   *)
(***************************************************************************)
EXTENDS Integers, Sequences, FiniteSets, TLC

\* ---------------------------------------------------------------- bounds
MaxSize == 2

\* The cache only compares keys for equality and never inspects a value:
\* one key more than the largest size overflows every cache, and two values
\* tell an update from the value it replaces.
Keys == 1..(MaxSize + 1)
Values == 1..2
\* sizes offered to the constructors; 0 is the invalid one
Sizes == 0..MaxSize
\* ratios in hundredths (0.20 is 20); -50 and 150 are outside [0.0, 1.0].
\* For every size up to 7 and every ratio here float64(size)*ratio truncates
\* to (size * hundredths) \div 100.
RecentRatios == {-50, 0, 20, 50, 80, 100, 150}
GhostRatios == {-50, 0, 100, 150}

\* the nil interface value
Nil == 0

Default2QRecentRatio == 20
Default2QGhostEntries == 80

VARIABLES
    cache,      \* the *twoQueueCache returned by the constructor
    status,     \* "none" before construction, "ready", "failed" (constructor
                \* returned an error), "crashed" (fatal runtime error)
    last,       \* the most recent call and what it returned
    pc,         \* SpecConc: each goroutine's position
    loc,        \* SpecConc: each goroutine's local variables
    opsLeft,    \* SpecConc: operations each goroutine may still start
    lruStore    \* SpecLRU: a bounded LRU store used on its own

vars == <<cache, status, last, pc, loc, opsLeft, lruStore>>

\* ------------------------------------------------------- sync.RWMutex
\* readerCount : number of RLock calls not yet undone
\* w           : a writer holds rw.w and has announced itself (in Go:
\*               readerCount was lowered by rwmutexMaxReaders)
\* readerWait  : departing readers the announced writer waits for
\* readerSem, writerSem : the two semaphores
RWMutexZero ==
    [readerCount |-> 0, w |-> FALSE, readerWait |-> 0,
     readerSem |-> 0, writerSem |-> 0]

\* RLock: readerCount.Add(1); the caller sleeps on readerSem iff a writer
\* has announced itself
RLockState(m) == [m EXCEPT !.readerCount = @ + 1]
RLockWaits(m) == m.w

\* Lock: rw.w.Lock() (needs w free), announce, then sleep on writerSem iff
\* readers are active
LockEnabled(m) == ~m.w
LockState(m) ==
    [m EXCEPT !.w = TRUE,
              !.readerWait = IF m.readerCount # 0 THEN @ + m.readerCount ELSE @]
LockWaits(m) == m.readerCount # 0 /\ m.readerWait + m.readerCount # 0

\* Unlock: fatal("sync: Unlock of unlocked RWMutex") iff no writer has
\* announced itself; otherwise wake readerCount readers and release rw.w
UnlockFatal(m) == ~m.w
UnlockState(m) ==
    IF UnlockFatal(m) THEN m
    ELSE [m EXCEPT !.w = FALSE, !.readerSem = @ + m.readerCount]

\* RUnlock: fatal("sync: RUnlock of unlocked RWMutex") iff no reader is
\* counted; the last reader an announced writer waits for wakes it
RUnlockFatal(m) == m.readerCount = 0
RUnlockState(m) ==
    IF RUnlockFatal(m) THEN m
    ELSE IF m.w
         THEN [m EXCEPT !.readerCount = @ - 1,
                        !.readerWait = @ - 1,
                        !.writerSem = IF m.readerWait - 1 = 0 THEN @ + 1 ELSE @]
         ELSE [m EXCEPT !.readerCount = @ - 1]

\* ------------------------------------------------------ container/list
\* a list is a sequence of items, front first; an element is its index
Front(s) == IF Len(s) = 0 THEN 0 ELSE 1
Back(s) == Len(s)
ListRemove(s, i) == SubSeq(s, 1, i - 1) \o SubSeq(s, i + 1, Len(s))
ListPushFront(s, item) == <<item>> \o s
ListMoveToFront(s, i) == IF i = Front(s) THEN s ELSE <<s[i]>> \o ListRemove(s, i)
\* MoveBefore(e, mark): no-op when e = mark, else e is put right before mark
ListMoveBefore(s, i, j) ==
    IF i = j THEN s
    ELSE LET r == ListRemove(s, i)
             m == IF j > i THEN j - 1 ELSE j
         IN SubSeq(r, 1, m - 1) \o <<s[i]>> \o SubSeq(r, m, Len(r))

\* ---------------------------------------------------------------- lru
\* list  : the recency list of lruItems, most recently used first
\* cache : the keys of the map from key to list element
NewLRUStore(capacity) ==
    [capacity |-> capacity, list |-> <<>>, cache |-> {}, lock |-> RWMutexZero]

NewLRU(capacity) ==
    IF capacity <= 0
    THEN [l |-> NewLRUStore(0), err |-> "must provide a positive size"]
    ELSE [l |-> NewLRUStore(capacity), err |-> "nil"]

\* the list element the map holds for key
Element(l, key) == CHOOSE i \in 1..Len(l.list) : l.list[i].key = key

removeElement_keepIndex(l, e) == [l EXCEPT !.list = ListRemove(@, e)]

removeElement(l, e) ==
    [l EXCEPT !.list = ListRemove(@, e), !.cache = @ \ {l.list[e].key}]

removeOldest(l) ==
    IF Back(l.list) # 0 THEN removeElement(l, Back(l.list)) ELSE l

\* lines 47-54 of Get, between the lock calls
lruGetBody(l, key) ==
    IF key \notin l.cache
    THEN [l |-> l, value |-> Nil, err |-> "not found in cache"]
    ELSE LET e == Element(l, key)
         IN [l |-> [l EXCEPT !.list = ListMoveBefore(@, e, Front(l.list))],
             value |-> l.list[e].value, err |-> "nil"]

\* Get takes the read lock and defers the WRITE unlock
lruGet(l, key) ==
    LET l1 == [l EXCEPT !.lock = RLockState(@)]
        b == lruGetBody(l1, key)
    IN [l |-> [b.l EXCEPT !.lock = UnlockState(@)],
        value |-> b.value, err |-> b.err, fatal |-> UnlockFatal(b.l.lock)]

\* lines 61-76 of Put, between the lock calls; dropped reports whether the
\* store's own capacity eviction fired
lruPutBody(l, key, value) ==
    IF key \in l.cache
    THEN LET e == Element(l, key)
         IN [l EXCEPT !.list = [ListMoveToFront(@, e) EXCEPT ![1].value = value]]
    ELSE LET l1 == IF Len(l.list) >= l.capacity THEN removeOldest(l) ELSE l
         IN [l1 EXCEPT !.list = ListPushFront(@, [key |-> key, value |-> value]),
                       !.cache = @ \cup {key}]

lruPutDrops(l, key) == key \notin l.cache /\ Len(l.list) >= l.capacity /\ Len(l.list) > 0

lruPut(l, key, value) ==
    LET l1 == [l EXCEPT !.lock = LockState(@)]
        l2 == lruPutBody(l1, key, value)
    IN [l2 EXCEPT !.lock = UnlockState(@)]

\* Peek's named result ok is shadowed by the ok of the map lookup, so the
\* function returns the zero value of ok
lruPeek(l, key) ==
    [value |-> IF key \in l.cache THEN l.list[Element(l, key)].value ELSE Nil,
     ok |-> FALSE]

lruContains(l, key) == key \in l.cache

\* Remove's named result ok is shadowed the same way
lruRemove(l, key) ==
    [l |-> IF key \in l.cache THEN removeElement(l, Element(l, key)) ELSE l,
     ok |-> FALSE]

lruLen(l) == Len(l.list)

lruRemoveOldest(l) ==
    IF Back(l.list) # 0 THEN removeElement(l, Back(l.list)) ELSE l

\* oldest to newest
lruKeys(l) == [i \in 1..Len(l.list) |-> l.list[Len(l.list) + 1 - i].key]

lruPurge(l) == [l EXCEPT !.cache = {}, !.list = <<>>]

\* ------------------------------------------------------ internal/lru
\* LRU of package internal/lru: Get, Put and the constructor only
LRUNewLRU(capacity) ==
    IF capacity <= 0
    THEN [l |-> NewLRUStore(0), err |-> "must provide a positive size"]
    ELSE [l |-> NewLRUStore(capacity), err |-> "nil"]

LRUremoveElement(l, e) ==
    [l EXCEPT !.list = ListRemove(@, e), !.cache = @ \ {l.list[e].key}]

LRUremoveOldest(l) ==
    IF Back(l.list) # 0 THEN LRUremoveElement(l, Back(l.list)) ELSE l

LRUGet_noMove(l, key) ==
    IF key \notin l.cache
    THEN [l |-> l, value |-> Nil, err |-> "not found in cache", fatal |-> FALSE]
    ELSE [l |-> l, value |-> l.list[Element(l, key)].value, err |-> "nil",
          fatal |-> FALSE]

\* Get takes no lock
LRUGet(l, key) ==
    IF key \notin l.cache
    THEN [l |-> l, value |-> Nil, err |-> "not found in cache", fatal |-> FALSE]
    ELSE LET e == Element(l, key)
         IN [l |-> [l EXCEPT !.list = ListMoveBefore(@, e, Front(l.list))],
             value |-> l.list[e].value, err |-> "nil", fatal |-> FALSE]

LRUPut(l, key, value) ==
    LET l1 == [l EXCEPT !.lock = LockState(@)]
        l2 == IF key \in l1.cache
              THEN LET e == Element(l1, key)
                   IN [l1 EXCEPT !.list = [ListMoveToFront(@, e)
                                             EXCEPT ![1].value = value]]
              ELSE LET l3 == IF Len(l1.list) >= l1.capacity
                             THEN LRUremoveOldest(l1) ELSE l1
                   IN [l3 EXCEPT !.list = ListPushFront(@, [key |-> key,
                                                            value |-> value]),
                                 !.cache = @ \cup {key}]
    IN [l2 EXCEPT !.lock = UnlockState(@)]

\* kind  : "lru" (the package's store) or "LRU" (internal/lru)
\* puts  : the keys put since construction, in order, while fresh
\* fresh : only puts of distinct keys and calls that change nothing happened
NoStore == [kind |-> "none", l |-> NewLRUStore(0), puts |-> <<>>, fresh |-> FALSE]

\* ------------------------------------------------------- twoQueueCache
NilCache ==
    [size |-> 0, recentSize |-> 0,
     recent |-> NewLRUStore(0), frequent |-> NewLRUStore(0),
     recentEvict |-> NewLRUStore(0), lock |-> RWMutexZero]

\* int(float64(size) * ratio), ratio in hundredths, size and ratio validated
SubSize(sz, ratio) == (sz * ratio) \div 100

\* New2QParams allocating recent with its target size
New2QParams_recentCap(sz, recentRatio, ghostRatio) ==
    IF sz <= 0 THEN [cache |-> NilCache, err |-> "invalid size"]
    ELSE IF recentRatio < 0 \/ recentRatio > 100
    THEN [cache |-> NilCache, err |-> "invalid recent ratio"]
    ELSE IF ghostRatio < 0 \/ ghostRatio > 100
    THEN [cache |-> NilCache, err |-> "invalid ghost ratio"]
    ELSE LET recentSize == SubSize(sz, recentRatio)
             evictSize == SubSize(sz, ghostRatio)
             r == NewLRU(recentSize)
             f == NewLRU(sz)
             g == NewLRU(evictSize)
         IN IF r.err # "nil" THEN [cache |-> NilCache, err |-> r.err]
            ELSE IF f.err # "nil" THEN [cache |-> NilCache, err |-> f.err]
            ELSE IF g.err # "nil" THEN [cache |-> NilCache, err |-> g.err]
            ELSE [cache |-> [size |-> sz, recentSize |-> recentSize,
                             recent |-> r.l, frequent |-> f.l,
                             recentEvict |-> g.l, lock |-> RWMutexZero],
                  err |-> "nil"]

New2QParams(sz, recentRatio, ghostRatio) ==
    IF sz <= 0 THEN [cache |-> NilCache, err |-> "invalid size"]
    ELSE IF recentRatio < 0 \/ recentRatio > 100
    THEN [cache |-> NilCache, err |-> "invalid recent ratio"]
    ELSE IF ghostRatio < 0 \/ ghostRatio > 100
    THEN [cache |-> NilCache, err |-> "invalid ghost ratio"]
    ELSE LET recentSize == SubSize(sz, recentRatio)
             evictSize == SubSize(sz, ghostRatio)
             r == NewLRU(sz)
             f == NewLRU(sz)
             g == NewLRU(evictSize)
         IN IF r.err # "nil" THEN [cache |-> NilCache, err |-> r.err]
            ELSE IF f.err # "nil" THEN [cache |-> NilCache, err |-> f.err]
            ELSE IF g.err # "nil" THEN [cache |-> NilCache, err |-> g.err]
            ELSE [cache |-> [size |-> sz, recentSize |-> recentSize,
                             recent |-> r.l, frequent |-> f.l,
                             recentEvict |-> g.l, lock |-> RWMutexZero],
                  err |-> "nil"]

New2Q(sz, recentRation, ghostEntries) ==
    New2QParams(sz,
                IF recentRation = 0 THEN Default2QRecentRatio ELSE recentRation,
                IF ghostEntries = 0 THEN Default2QGhostEntries ELSE ghostEntries)

\* ensureSpace with the budget test off by one (<= for <)
ensureSpace_offByOne(t, recentEvict) ==
    LET recentLen == lruLen(t.recent)
        freqLen == lruLen(t.frequent)
    IN IF recentLen + freqLen <= t.size THEN t
       ELSE IF recentLen > 0 /\ (recentLen > t.recentSize
                                 \/ (recentLen = t.recentSize /\ ~recentEvict))
       THEN [t EXCEPT !.recent = lruRemoveOldest(@)]
       ELSE [t EXCEPT !.frequent = lruRemoveOldest(@)]

ensureSpace(t, recentEvict) ==
    LET recentLen == lruLen(t.recent)
        freqLen == lruLen(t.frequent)
    IN IF recentLen + freqLen < t.size THEN t
       ELSE IF recentLen > 0 /\ (recentLen > t.recentSize
                                 \/ (recentLen = t.recentSize /\ ~recentEvict))
       THEN [t EXCEPT !.recent = lruRemoveOldest(@)]
       ELSE [t EXCEPT !.frequent = lruRemoveOldest(@)]

\* AddBody promoting a key of recent without removing it from recent
AddBody_keepRecent(t, key, value) ==
    IF lruContains(t.frequent, key)
    THEN [t EXCEPT !.frequent = lruPut(@, key, value)]
    ELSE IF lruContains(t.recent, key)
    THEN [t EXCEPT !.frequent = lruPut(@, key, value)]
    ELSE IF lruContains(t.recentEvict, key)
    THEN LET t1 == ensureSpace(t, TRUE)
             t2 == [t1 EXCEPT !.recentEvict = lruRemove(@, key).l]
         IN [t2 EXCEPT !.frequent = lruPut(@, key, value)]
    ELSE LET t1 == ensureSpace(t, FALSE)
         IN [t1 EXCEPT !.recent = lruPut(@, key, value)]

\* AddBody putting a key found in no store straight into frequent
AddBody_newToFrequent(t, key, value) ==
    IF lruContains(t.frequent, key)
    THEN [t EXCEPT !.frequent = lruPut(@, key, value)]
    ELSE IF lruContains(t.recent, key)
    THEN LET t1 == [t EXCEPT !.recent = lruRemove(@, key).l]
         IN [t1 EXCEPT !.frequent = lruPut(@, key, value)]
    ELSE IF lruContains(t.recentEvict, key)
    THEN LET t1 == ensureSpace(t, TRUE)
             t2 == [t1 EXCEPT !.recentEvict = lruRemove(@, key).l]
         IN [t2 EXCEPT !.frequent = lruPut(@, key, value)]
    ELSE LET t1 == ensureSpace(t, FALSE)
         IN [t1 EXCEPT !.frequent = lruPut(@, key, value)]

\* Add between t.lock.Lock() and the deferred t.lock.Unlock()
AddBody(t, key, value) ==
    IF lruContains(t.frequent, key)
    THEN [t EXCEPT !.frequent = lruPut(@, key, value)]
    ELSE IF lruContains(t.recent, key)
    THEN LET t1 == [t EXCEPT !.recent = lruRemove(@, key).l]
         IN [t1 EXCEPT !.frequent = lruPut(@, key, value)]
    ELSE IF lruContains(t.recentEvict, key)
    THEN LET t1 == ensureSpace(t, TRUE)
             t2 == [t1 EXCEPT !.recentEvict = lruRemove(@, key).l]
         IN [t2 EXCEPT !.frequent = lruPut(@, key, value)]
    ELSE LET t1 == ensureSpace(t, FALSE)
         IN [t1 EXCEPT !.recent = lruPut(@, key, value)]

\* whether the Put that Add ends with makes its store evict on its own
AddDrops(t, key) ==
    IF lruContains(t.frequent, key) THEN lruPutDrops(t.frequent, key)
    ELSE IF lruContains(t.recent, key) THEN lruPutDrops(t.frequent, key)
    ELSE IF lruContains(t.recentEvict, key)
    THEN lruPutDrops(ensureSpace(t, TRUE).frequent, key)
    ELSE lruPutDrops(ensureSpace(t, FALSE).recent, key)

twoQueueAdd(t, key, value) ==
    LET t1 == [t EXCEPT !.lock = LockState(@)]
        t2 == AddBody(t1, key, value)
    IN [t2 EXCEPT !.lock = UnlockState(@)]

\* Get takes no lock of the cache.  In the promotion branch value and ok are
\* new variables of the if statement, so the named result value keeps what
\* frequent.Get returned.
twoQueueGet(t, key) ==
    LET g == lruGet(t.frequent, key)
        t1 == [t EXCEPT !.frequent = g.l]
    IN IF g.fatal THEN [t |-> t1, value |-> Nil, err |-> "fatal"]
       ELSE IF g.err = "nil" THEN [t |-> t1, value |-> g.value, err |-> "nil"]
       ELSE LET p == lruPeek(t1.recent, key)
            IN IF p.ok
               THEN LET t2 == [t1 EXCEPT !.recent = lruRemove(@, key).l]
                    IN [t |-> [t2 EXCEPT !.frequent = lruPut(@, key, p.value)],
                        value |-> g.value, err |-> "nil"]
               ELSE [t |-> t1, value |-> g.value, err |-> g.err]

twoQueueLen(t) == lruLen(t.recent) + lruLen(t.frequent)

twoQueueKeys(t) == lruKeys(t.frequent) \o lruKeys(t.recent)

\* every store's Remove reports false, so all three are tried
twoQueueRemove(t, key) ==
    LET t0 == [t EXCEPT !.lock = LockState(@)]
        f == lruRemove(t0.frequent, key)
        t1 == [t0 EXCEPT !.frequent = f.l]
        r == lruRemove(t1.recent, key)
        t2 == [t1 EXCEPT !.recent = r.l]
        g == lruRemove(t2.recentEvict, key)
        t3 == [t2 EXCEPT !.recentEvict = g.l]
        body == IF f.ok THEN t1 ELSE IF r.ok THEN t2 ELSE t3
    IN [body EXCEPT !.lock = UnlockState(@)]

twoQueuePurge(t) ==
    LET t0 == [t EXCEPT !.lock = LockState(@)]
        t1 == [t0 EXCEPT !.recent = lruPurge(@), !.frequent = lruPurge(@),
                         !.recentEvict = lruPurge(@)]
    IN [t1 EXCEPT !.lock = UnlockState(@)]

twoQueueContains(t, key) ==
    lruContains(t.frequent, key) \/ lruContains(t.recent, key)

twoQueuePeek(t, key) ==
    LET f == lruPeek(t.frequent, key)
    IN IF f.ok THEN f ELSE lruPeek(t.recent, key)

\* ------------------------------------------------- observations on a state
KeysOf(l) == {l.list[i].key : i \in 1..Len(l.list)}
InRecent(k) == k \in KeysOf(cache.recent)
InFrequent(k) == k \in KeysOf(cache.frequent)
InRecentEvict(k) == k \in KeysOf(cache.recentEvict)
ValueIn(l, k) == l.list[CHOOSE i \in 1..Len(l.list) : l.list[i].key = k].value

\* where an operation took an entry from to make space, and which
EvictedFrom(t0, t1, key) ==
    IF KeysOf(t0.recent) \ (KeysOf(t1.recent) \cup {key}) # {} THEN "recent"
    ELSE IF KeysOf(t0.frequent) \ (KeysOf(t1.frequent) \cup {key}) # {} THEN "frequent"
    ELSE "none"
EvictedKey(t0, t1, key) ==
    LET gone == (KeysOf(t0.recent) \cup KeysOf(t0.frequent))
                  \ (KeysOf(t1.recent) \cup KeysOf(t1.frequent) \cup {key})
    IN IF gone = {} THEN Nil ELSE CHOOSE k \in gone : TRUE
\* the value t holds for key in recent or frequent, Nil if it holds none
Stored(t, key) ==
    IF key \in KeysOf(t.frequent) THEN ValueIn(t.frequent, key)
    ELSE IF key \in KeysOf(t.recent) THEN ValueIn(t.recent, key)
    ELSE Nil
Where(t, key) ==
    IF key \in KeysOf(t.frequent) THEN "frequent"
    ELSE IF key \in KeysOf(t.recent) THEN "recent"
    ELSE IF key \in KeysOf(t.recentEvict) THEN "recentEvict"
    ELSE "none"

NoCall ==
    [op |-> "none", key |-> Nil, value |-> Nil, ret |-> Nil, err |-> "nil",
     ok |-> FALSE, keys |-> <<>>, args |-> <<>>, was |-> "none", had |-> Nil,
     evictedFrom |-> "none", evictedKey |-> Nil, dropped |-> FALSE]

\* --------------------------------------------- Spec: one sequential client
concIdle == <<pc, loc, opsLeft, lruStore>>

CallNew2Q ==
    /\ status = "none"
    /\ \E sz \in Sizes, recentRation \in RecentRatios, ghostEntries \in GhostRatios :
         LET n == New2Q(sz, recentRation, ghostEntries)
         IN /\ cache' = n.cache
            /\ status' = IF n.err = "nil" THEN "ready" ELSE "failed"
            /\ last' = [NoCall EXCEPT !.op = "New2Q", !.err = n.err,
                                      !.args = <<sz, recentRation, ghostEntries>>]
    /\ UNCHANGED concIdle

CallNew2QParams ==
    /\ status = "none"
    /\ \E sz \in Sizes, recentRatio \in RecentRatios, ghostRatio \in GhostRatios :
         LET n == New2QParams(sz, recentRatio, ghostRatio)
         IN /\ cache' = n.cache
            /\ status' = IF n.err = "nil" THEN "ready" ELSE "failed"
            /\ last' = [NoCall EXCEPT !.op = "New2QParams", !.err = n.err,
                                      !.args = <<sz, recentRatio, ghostRatio>>]
    /\ UNCHANGED concIdle

CallAdd ==
    /\ status = "ready"
    /\ \E key \in Keys, value \in Values :
         LET t1 == twoQueueAdd(cache, key, value)
         IN /\ cache' = t1
            /\ last' = [NoCall EXCEPT !.op = "Add", !.key = key, !.value = value,
                                      !.was = Where(cache, key),
                                      !.evictedFrom = EvictedFrom(cache, t1, key),
                                      !.evictedKey = EvictedKey(cache, t1, key),
                                      !.dropped = AddDrops(cache, key)]
    /\ UNCHANGED <<status, concIdle>>

CallGet ==
    /\ status = "ready"
    /\ \E key \in Keys :
         LET g == twoQueueGet(cache, key)
         IN /\ cache' = g.t
            /\ status' = IF g.err = "fatal" THEN "crashed" ELSE "ready"
            /\ last' = [NoCall EXCEPT !.op = "Get", !.key = key, !.ret = g.value,
                                      !.err = g.err, !.was = Where(cache, key),
                                      !.had = Stored(cache, key)]
    /\ UNCHANGED concIdle

CallRemove ==
    /\ status = "ready"
    /\ \E key \in Keys :
         /\ cache' = twoQueueRemove(cache, key)
         /\ last' = [NoCall EXCEPT !.op = "Remove", !.key = key,
                                   !.was = Where(cache, key)]
    /\ UNCHANGED <<status, concIdle>>

CallPurge ==
    /\ status = "ready"
    /\ cache' = twoQueuePurge(cache)
    /\ last' = [NoCall EXCEPT !.op = "Purge", !.keys = twoQueueKeys(cache)]
    /\ UNCHANGED <<status, concIdle>>

\* the readers hold t.lock.RLock() and release it with RUnlock()
ReadLocked(t) == [t EXCEPT !.lock = RUnlockState(RLockState(@))]

CallLen ==
    /\ status = "ready"
    /\ cache' = ReadLocked(cache)
    /\ last' = [NoCall EXCEPT !.op = "Len", !.ret = twoQueueLen(cache)]
    /\ UNCHANGED <<status, concIdle>>

CallKeys ==
    /\ status = "ready"
    /\ cache' = ReadLocked(cache)
    /\ last' = [NoCall EXCEPT !.op = "Keys", !.keys = twoQueueKeys(cache)]
    /\ UNCHANGED <<status, concIdle>>

CallContains ==
    /\ status = "ready"
    /\ \E key \in Keys :
         /\ cache' = ReadLocked(cache)
         /\ last' = [NoCall EXCEPT !.op = "Contains", !.key = key,
                                   !.ok = twoQueueContains(cache, key),
                                   !.was = Where(cache, key)]
    /\ UNCHANGED <<status, concIdle>>

CallPeek ==
    /\ status = "ready"
    /\ \E key \in Keys :
         LET p == twoQueuePeek(cache, key)
         IN /\ cache' = ReadLocked(cache)
            /\ last' = [NoCall EXCEPT !.op = "Peek", !.key = key, !.ret = p.value,
                                      !.ok = p.ok, !.was = Where(cache, key),
                                      !.had = Stored(cache, key)]
    /\ UNCHANGED <<status, concIdle>>

NumThreads == 2
MaxOps == 2
Threads == 1..NumThreads
\* store : the store a pending Put goes to;  wait : "w" or "r" while the
\* goroutine sleeps on a writerSem or readerSem;  torn : the goroutine looked
\* a key up while another goroutine had it out of recent and not yet in
\* frequent
NoLocals ==
    [op |-> "none", key |-> Nil, value |-> Nil, ret |-> Nil, err |-> "nil",
     ok |-> FALSE, store |-> "none", wait |-> "none", torn |-> FALSE]

Init ==
    /\ cache = NilCache
    /\ status = "none"
    /\ last = NoCall
    /\ pc = [g \in Threads |-> "idle"]
    /\ loc = [g \in Threads |-> NoLocals]
    /\ opsLeft = [g \in Threads |-> 0]
    /\ lruStore = NoStore

Next ==
    \/ CallNew2Q
    \/ CallNew2QParams
    \/ CallAdd
    \/ CallGet
    \/ CallRemove
    \/ CallPurge
    \/ CallLen
    \/ CallKeys
    \/ CallContains
    \/ CallPeek

Spec == Init /\ [][Next]_vars

\* ------------------------------------------ SpecLRU: a store used on its own
twoQIdle == <<cache, pc, loc, opsLeft>>
IsLru == lruStore.kind = "lru"
\* the keys of a store from the oldest to the newest
OrderOf(l) == [i \in 1..Len(l.list) |-> l.list[Len(l.list) + 1 - i].key]
Without(keys, k) == SelectSeq(keys, LAMBDA x : x # k)
Present(key) == key \in KeysOf(lruStore.l)
\* a put continues the fresh run when its key was never put before
FreshKey(key) ==
    lruStore.fresh /\ \A i \in 1..Len(lruStore.puts) : lruStore.puts[i] # key

\* a call that is not a put of a new key ends the fresh run unless it changed
\* nothing
StillFresh(l1) == lruStore.fresh /\ l1.list = lruStore.l.list

StoreNew ==
    /\ status = "none"
    /\ \E kind \in {"lru", "LRU"}, capacity \in Sizes :
         LET n == IF kind = "lru" THEN NewLRU(capacity) ELSE LRUNewLRU(capacity)
         IN /\ lruStore' = [kind |-> kind, l |-> n.l, puts |-> <<>>,
                             fresh |-> n.err = "nil"]
            /\ status' = IF n.err = "nil" THEN "ready" ELSE "failed"
            /\ last' = [NoCall EXCEPT !.op = "NewLRU", !.err = n.err,
                                      !.args = <<capacity>>]
    /\ UNCHANGED twoQIdle

StorePut ==
    /\ status = "ready"
    /\ \E key \in Keys, value \in Values :
         LET l0 == lruStore.l
             l1 == IF IsLru THEN lruPut(l0, key, value) ELSE LRUPut(l0, key, value)
             gone == KeysOf(l0) \ KeysOf(l1)
         IN /\ lruStore' = [lruStore EXCEPT
                               !.l = l1,
                               !.puts = IF FreshKey(key)
                                        THEN Append(@, key) ELSE <<>>,
                               !.fresh = FreshKey(key)]
            /\ last' = [NoCall EXCEPT
                           !.op = "Put", !.key = key, !.value = value,
                           !.keys = OrderOf(l0),
                           !.was = IF Present(key) THEN "store" ELSE "none",
                           !.evictedFrom = IF gone = {} THEN "none" ELSE "store",
                           !.evictedKey = IF gone = {} THEN Nil
                                          ELSE CHOOSE k \in gone : TRUE]
    /\ UNCHANGED <<status, twoQIdle>>

StoreGet ==
    /\ status = "ready"
    /\ \E key \in Keys :
         LET g == IF IsLru THEN lruGet(lruStore.l, key) ELSE LRUGet(lruStore.l, key)
         IN /\ lruStore' = [lruStore EXCEPT
                               !.l = g.l,
                               !.puts = IF StillFresh(g.l) THEN @ ELSE <<>>,
                               !.fresh = StillFresh(g.l)]
            /\ status' = IF g.fatal THEN "crashed" ELSE "ready"
            /\ last' = [NoCall EXCEPT
                           !.op = "Get", !.key = key,
                           !.keys = OrderOf(lruStore.l),
                           !.ret = IF g.fatal THEN Nil ELSE g.value,
                           !.err = IF g.fatal THEN "fatal" ELSE g.err,
                           !.was = IF Present(key) THEN "store" ELSE "none",
                           !.had = IF Present(key) THEN ValueIn(lruStore.l, key)
                                   ELSE Nil]
    /\ UNCHANGED twoQIdle

StorePeek ==
    /\ status = "ready"
    /\ IsLru
    /\ \E key \in Keys :
         LET p == lruPeek(lruStore.l, key)
         IN last' = [NoCall EXCEPT
                       !.op = "Peek", !.key = key, !.ret = p.value, !.ok = p.ok,
                       !.was = IF Present(key) THEN "store" ELSE "none",
                       !.had = IF Present(key) THEN ValueIn(lruStore.l, key)
                               ELSE Nil]
    /\ UNCHANGED <<status, lruStore, twoQIdle>>

StoreContains ==
    /\ status = "ready"
    /\ IsLru
    /\ \E key \in Keys :
         last' = [NoCall EXCEPT
                    !.op = "Contains", !.key = key,
                    !.ok = lruContains(lruStore.l, key),
                    !.was = IF Present(key) THEN "store" ELSE "none"]
    /\ UNCHANGED <<status, lruStore, twoQIdle>>

StoreRemove ==
    /\ status = "ready"
    /\ IsLru
    /\ \E key \in Keys :
         LET r == lruRemove(lruStore.l, key)
         IN /\ lruStore' = [lruStore EXCEPT
                               !.l = r.l,
                               !.puts = IF StillFresh(r.l) THEN @ ELSE <<>>,
                               !.fresh = StillFresh(r.l)]
            /\ last' = [NoCall EXCEPT
                           !.op = "Remove", !.key = key, !.ok = r.ok,
                           !.keys = OrderOf(lruStore.l),
                           !.was = IF Present(key) THEN "store" ELSE "none"]
    /\ UNCHANGED <<status, twoQIdle>>

StoreLen ==
    /\ status = "ready"
    /\ IsLru
    /\ last' = [NoCall EXCEPT !.op = "Len", !.ret = lruLen(lruStore.l)]
    /\ UNCHANGED <<status, lruStore, twoQIdle>>

StoreRemoveOldest ==
    /\ status = "ready"
    /\ IsLru
    /\ LET l1 == lruRemoveOldest(lruStore.l)
           gone == KeysOf(lruStore.l) \ KeysOf(l1)
       IN /\ lruStore' = [lruStore EXCEPT
                             !.l = l1,
                             !.puts = IF StillFresh(l1) THEN @ ELSE <<>>,
                             !.fresh = StillFresh(l1)]
          /\ last' = [NoCall EXCEPT
                         !.op = "RemoveOldest",
                         !.evictedFrom = IF gone = {} THEN "none" ELSE "store",
                         !.evictedKey = IF gone = {} THEN Nil
                                        ELSE CHOOSE k \in gone : TRUE]
    /\ UNCHANGED <<status, twoQIdle>>

StoreKeys ==
    /\ status = "ready"
    /\ IsLru
    /\ last' = [NoCall EXCEPT !.op = "Keys", !.keys = lruKeys(lruStore.l)]
    /\ UNCHANGED <<status, lruStore, twoQIdle>>

StorePurge ==
    /\ status = "ready"
    /\ IsLru
    /\ LET l1 == lruPurge(lruStore.l)
       IN lruStore' = [lruStore EXCEPT
                         !.l = l1,
                         !.puts = IF StillFresh(l1) THEN @ ELSE <<>>,
                         !.fresh = StillFresh(l1)]
    /\ last' = [NoCall EXCEPT !.op = "Purge"]
    /\ UNCHANGED <<status, twoQIdle>>

NextLRU ==
    \/ StoreNew
    \/ StorePut
    \/ StoreGet
    \/ StorePeek
    \/ StoreContains
    \/ StoreRemove
    \/ StoreLen
    \/ StoreRemoveOldest
    \/ StoreKeys
    \/ StorePurge

SpecLRU == Init /\ [][NextLRU]_vars

\* ------------------------------------------- SpecConc: concurrent goroutines
\* Each goroutine runs operations of one cache built by New2Q(2, 0.0, 0.0).
\* Steps are the lock calls and the code between them; unsynchronised
\* accesses interleave at that grain.
\*   Add      A_lock  A_body  [P_lock P_body P_unlock]  A_unlock
\*   Get      G_rlock G_body  G_unlock G_after [P_lock P_body P_unlock]
\*   Contains C_rlock C_body  C_runlock
\*   Peek     K_rlock K_body  K_runlock
\*   Remove   R_lock  R_body  R_unlock
ConcSize == 2

MutexOf(g) ==
    IF pc[g] \in {"P_lock", "P_unlock"} THEN loc[g].store
    ELSE IF pc[g] \in {"G_rlock", "G_unlock"} THEN "frequent"
    ELSE "t"
Mutex(name) == IF name = "t" THEN cache.lock ELSE cache[name].lock
WithMutex(name, m) ==
    IF name = "t" THEN [cache EXCEPT !.lock = m] ELSE [cache EXCEPT ![name].lock = m]

\* where a goroutine continues once the lock call at pc[g] has returned
AfterLock(g) ==
    CASE pc[g] = "A_lock" -> "A_body"
      [] pc[g] = "R_lock" -> "R_body"
      [] pc[g] = "P_lock" -> "P_body"
      [] pc[g] = "G_rlock" -> "G_body"
      [] pc[g] = "C_rlock" -> "C_body"
      [] pc[g] = "K_rlock" -> "K_body"
      [] pc[g] = "G_unlock" -> "G_after"
      [] pc[g] = "P_unlock" -> IF loc[g].op = "Add" THEN "A_unlock" ELSE "idle"
      [] OTHER -> "idle"

\* goroutine h has taken key out of recent and not yet put it into frequent
Promoting(h, key) ==
    /\ pc[h] \in {"P_lock", "P_body"}
    /\ loc[h].key = key
    /\ loc[h].store = "frequent"
    /\ Where(cache, key) = "none"
Torn(g, key) == \E h \in Threads \ {g} : Promoting(h, key)

Begin(g) ==
    /\ status = "ready"
    /\ pc[g] = "idle"
    /\ opsLeft[g] > 0
    /\ \E op \in {"Add", "Get", "Contains", "Peek", "Remove"}, key \in Keys,
          value \in Values :
         /\ op # "Add" => value = 1
         /\ loc' = [loc EXCEPT ![g] = [NoLocals EXCEPT !.op = op, !.key = key,
                                         !.value = IF op = "Add" THEN value ELSE Nil]]
         /\ pc' = [pc EXCEPT ![g] = CASE op = "Add" -> "A_lock"
                                      [] op = "Get" -> "G_rlock"
                                      [] op = "Contains" -> "C_rlock"
                                      [] op = "Peek" -> "K_rlock"
                                      [] op = "Remove" -> "R_lock"]
    /\ opsLeft' = [opsLeft EXCEPT ![g] = @ - 1]
    /\ UNCHANGED <<cache, status, last, lruStore>>

\* Lock(): t.lock in Add and Remove, l.lock in lru.Put
WLock(g) ==
    /\ status = "ready"
    /\ pc[g] \in {"A_lock", "R_lock", "P_lock"}
    /\ loc[g].wait = "none"
    /\ LockEnabled(Mutex(MutexOf(g)))
    /\ cache' = WithMutex(MutexOf(g), LockState(Mutex(MutexOf(g))))
    /\ IF LockWaits(Mutex(MutexOf(g)))
       THEN /\ loc' = [loc EXCEPT ![g].wait = "w"]
            /\ pc' = pc
       ELSE /\ pc' = [pc EXCEPT ![g] = AfterLock(g)]
            /\ loc' = loc
    /\ UNCHANGED <<status, last, lruStore, opsLeft>>

\* a writer asleep in Lock() is woken through writerSem
WWake(g) ==
    /\ status = "ready"
    /\ loc[g].wait = "w"
    /\ Mutex(MutexOf(g)).writerSem > 0
    /\ cache' = WithMutex(MutexOf(g),
                          [Mutex(MutexOf(g)) EXCEPT !.writerSem = @ - 1])
    /\ loc' = [loc EXCEPT ![g].wait = "none"]
    /\ pc' = [pc EXCEPT ![g] = AfterLock(g)]
    /\ UNCHANGED <<status, last, lruStore, opsLeft>>

\* RLock(): l.lock in lru.Get, t.lock in Contains and Peek
RLock(g) ==
    /\ status = "ready"
    /\ pc[g] \in {"G_rlock", "C_rlock", "K_rlock"}
    /\ loc[g].wait = "none"
    /\ cache' = WithMutex(MutexOf(g), RLockState(Mutex(MutexOf(g))))
    /\ IF RLockWaits(Mutex(MutexOf(g)))
       THEN /\ loc' = [loc EXCEPT ![g].wait = "r"]
            /\ pc' = pc
       ELSE /\ pc' = [pc EXCEPT ![g] = AfterLock(g)]
            /\ loc' = loc
    /\ UNCHANGED <<status, last, lruStore, opsLeft>>

\* a reader asleep in RLock() is woken through readerSem
RWake(g) ==
    /\ status = "ready"
    /\ loc[g].wait = "r"
    /\ Mutex(MutexOf(g)).readerSem > 0
    /\ cache' = WithMutex(MutexOf(g),
                          [Mutex(MutexOf(g)) EXCEPT !.readerSem = @ - 1])
    /\ loc' = [loc EXCEPT ![g].wait = "none"]
    /\ pc' = [pc EXCEPT ![g] = AfterLock(g)]
    /\ UNCHANGED <<status, last, lruStore, opsLeft>>

\* Unlock(): deferred in Add, Remove, lru.Put and lru.Get
WUnlock(g) ==
    /\ status = "ready"
    /\ pc[g] \in {"A_unlock", "R_unlock", "P_unlock", "G_unlock"}
    /\ IF UnlockFatal(Mutex(MutexOf(g)))
       THEN /\ status' = "crashed"
            /\ UNCHANGED <<cache, pc>>
            /\ loc' = [loc EXCEPT ![g].err = "fatal"]
       ELSE /\ cache' = WithMutex(MutexOf(g), UnlockState(Mutex(MutexOf(g))))
            /\ pc' = [pc EXCEPT ![g] = AfterLock(g)]
            /\ UNCHANGED <<status, loc>>
    /\ UNCHANGED <<last, lruStore, opsLeft>>

\* RUnlock(): deferred in Contains and Peek
RUnlock(g) ==
    /\ status = "ready"
    /\ pc[g] \in {"C_runlock", "K_runlock"}
    /\ IF RUnlockFatal(Mutex(MutexOf(g)))
       THEN /\ status' = "crashed"
            /\ UNCHANGED <<cache, pc>>
       ELSE /\ cache' = WithMutex(MutexOf(g), RUnlockState(Mutex(MutexOf(g))))
            /\ pc' = [pc EXCEPT ![g] = "idle"]
            /\ UNCHANGED status
    /\ UNCHANGED <<last, lruStore, loc, opsLeft>>

\* Add, lines 111-141, up to the call of Put that ends each branch
AddStep(g) ==
    /\ status = "ready"
    /\ pc[g] = "A_body"
    /\ LET key == loc[g].key
           torn == loc[g].torn \/ Torn(g, key)
       IN IF lruContains(cache.frequent, key)
          THEN /\ cache' = cache
               /\ loc' = [loc EXCEPT ![g].store = "frequent", ![g].torn = torn]
          ELSE IF lruContains(cache.recent, key)
          THEN /\ cache' = [cache EXCEPT !.recent = lruRemove(@, key).l]
               /\ loc' = [loc EXCEPT ![g].store = "frequent", ![g].torn = torn]
          ELSE IF lruContains(cache.recentEvict, key)
          THEN /\ cache' = [ensureSpace(cache, TRUE)
                               EXCEPT !.recentEvict = lruRemove(@, key).l]
               /\ loc' = [loc EXCEPT ![g].store = "frequent", ![g].torn = torn]
          ELSE /\ cache' = ensureSpace(cache, FALSE)
               /\ loc' = [loc EXCEPT ![g].store = "recent", ![g].torn = torn]
    /\ pc' = [pc EXCEPT ![g] = "P_lock"]
    /\ UNCHANGED <<status, last, lruStore, opsLeft>>

\* lru.Put between its lock calls
PutStep(g) ==
    /\ status = "ready"
    /\ pc[g] = "P_body"
    /\ cache' = [cache EXCEPT ![loc[g].store] =
                              lruPutBody(@, loc[g].key, loc[g].value)]
    /\ pc' = [pc EXCEPT ![g] = "P_unlock"]
    /\ UNCHANGED <<status, last, lruStore, loc, opsLeft>>

\* lru.Get on frequent between its lock calls
GetStep(g) ==
    /\ status = "ready"
    /\ pc[g] = "G_body"
    /\ LET b == lruGetBody(cache.frequent, loc[g].key)
       IN /\ cache' = [cache EXCEPT !.frequent = b.l]
          /\ loc' = [loc EXCEPT ![g].ret = b.value, ![g].err = b.err,
                                ![g].torn = @ \/ Torn(g, loc[g].key)]
    /\ pc' = [pc EXCEPT ![g] = "G_unlock"]
    /\ UNCHANGED <<status, last, lruStore, opsLeft>>

\* Get, lines 91-101, after frequent.Get has returned
GetAfter(g) ==
    /\ status = "ready"
    /\ pc[g] = "G_after"
    /\ IF loc[g].err = "nil"
       THEN /\ pc' = [pc EXCEPT ![g] = "idle"]
            /\ UNCHANGED <<cache, loc>>
       ELSE LET p == lruPeek(cache.recent, loc[g].key)
                torn == loc[g].torn \/ Torn(g, loc[g].key)
            IN IF p.ok
               THEN /\ cache' = [cache EXCEPT !.recent = lruRemove(@, loc[g].key).l]
                    /\ loc' = [loc EXCEPT ![g].store = "frequent",
                                          ![g].value = p.value, ![g].err = "nil",
                                          ![g].torn = torn]
                    /\ pc' = [pc EXCEPT ![g] = "P_lock"]
               ELSE /\ pc' = [pc EXCEPT ![g] = "idle"]
                    /\ loc' = [loc EXCEPT ![g].torn = torn]
                    /\ cache' = cache
    /\ UNCHANGED <<status, last, lruStore, opsLeft>>

ContainsStep(g) ==
    /\ status = "ready"
    /\ pc[g] = "C_body"
    /\ loc' = [loc EXCEPT ![g].ok = twoQueueContains(cache, loc[g].key),
                          ![g].torn = @ \/ Torn(g, loc[g].key)]
    /\ pc' = [pc EXCEPT ![g] = "C_runlock"]
    /\ UNCHANGED <<cache, status, last, lruStore, opsLeft>>

PeekStep(g) ==
    /\ status = "ready"
    /\ pc[g] = "K_body"
    /\ LET p == twoQueuePeek(cache, loc[g].key)
       IN loc' = [loc EXCEPT ![g].ret = p.value, ![g].ok = p.ok,
                             ![g].torn = @ \/ Torn(g, loc[g].key)]
    /\ pc' = [pc EXCEPT ![g] = "K_runlock"]
    /\ UNCHANGED <<cache, status, last, lruStore, opsLeft>>

RemoveStep(g) ==
    /\ status = "ready"
    /\ pc[g] = "R_body"
    /\ LET f == lruRemove(cache.frequent, loc[g].key)
           r == lruRemove(cache.recent, loc[g].key)
           e == lruRemove(cache.recentEvict, loc[g].key)
       IN cache' = IF f.ok THEN [cache EXCEPT !.frequent = f.l]
                   ELSE IF r.ok THEN [cache EXCEPT !.frequent = f.l, !.recent = r.l]
                   ELSE [cache EXCEPT !.frequent = f.l, !.recent = r.l,
                                      !.recentEvict = e.l]
    /\ loc' = [loc EXCEPT ![g].torn = @ \/ Torn(g, loc[g].key)]
    /\ pc' = [pc EXCEPT ![g] = "R_unlock"]
    /\ UNCHANGED <<status, last, lruStore, opsLeft>>

InitConc ==
    /\ cache = New2Q(ConcSize, 0, 0).cache
    /\ status = "ready"
    /\ last = NoCall
    /\ pc = [g \in Threads |-> "idle"]
    /\ loc = [g \in Threads |-> NoLocals]
    /\ opsLeft = [g \in Threads |-> MaxOps]
    /\ lruStore = NoStore

NextConc ==
    \E g \in Threads :
        \/ Begin(g)
        \/ WLock(g)
        \/ WWake(g)
        \/ RLock(g)
        \/ RWake(g)
        \/ WUnlock(g)
        \/ RUnlock(g)
        \/ AddStep(g)
        \/ PutStep(g)
        \/ GetStep(g)
        \/ GetAfter(g)
        \/ ContainsStep(g)
        \/ PeekStep(g)
        \/ RemoveStep(g)

SpecConc == InitConc /\ [][NextConc]_vars

\* ------------------------------------------------------------ properties

\* C1: after every operation of a constructed cache, recent.len() +
\* frequent.len() <= size.
CapacityInvariant == lruLen(cache.recent) + lruLen(cache.frequent) <= cache.size

\* an Add that had to evict to stay within the budget, on a full cache
CapacityWitness ==
    /\ status = "ready"
    /\ last.op = "Add"
    /\ last.evictedFrom # "none"
    /\ lruLen(cache.recent) + lruLen(cache.frequent) = cache.size

\* C2: between operations every key is in at most one of recent, frequent
\* and recentEvict.
Disjointness ==
    \A k \in Keys :
        /\ ~(InRecent(k) /\ InFrequent(k))
        /\ ~(InRecent(k) /\ InRecentEvict(k))
        /\ ~(InFrequent(k) /\ InRecentEvict(k))

\* an Add that moved a key from recent to frequent while recent keeps others
DisjointnessWitness ==
    /\ last.op = "Add"
    /\ last.was = "recent"
    /\ InFrequent(last.key)
    /\ cache.recent.list # <<>>

\* C3: Get of a key that is in recent or frequent returns its stored value
\* and no error; Get of a key in neither returns the not-found error.
GetReturnsWhatWasPut ==
    last.op = "Get" =>
        IF last.was \in {"recent", "frequent"}
        THEN last.err = "nil" /\ last.ret = last.had
        ELSE last.err = "not found in cache"

\* C4: Add of a new key (landing in recent) followed by Get of that key
\* leaves the key in frequent and not in recent, and Peek then finds it.
PromotionCorrectness ==
    [][(/\ last.op = "Add" /\ last.was = "none" /\ InRecent(last.key)
        /\ last'.op = "Get" /\ last'.key = last.key)
       => (/\ last.key \in KeysOf(cache'.frequent)
           /\ last.key \notin KeysOf(cache'.recent)
           /\ twoQueuePeek(cache', last.key).ok
           /\ twoQueuePeek(cache', last.key).value
                = ValueIn(cache'.frequent, last.key))]_vars

\* C5: when an Add evicted k1 from recent and the next call is Add(k1, v2),
\* k1 ends in frequent with v2 and in neither recent nor recentEvict.
GhostHitPromotion ==
    [][(/\ last.evictedFrom = "recent"
        /\ last'.op = "Add" /\ last'.key = last.evictedKey)
       => (/\ last'.key \in KeysOf(cache'.frequent)
           /\ Stored(cache', last'.key) = last'.value
           /\ last'.key \notin KeysOf(cache'.recent)
           /\ last'.key \notin KeysOf(cache'.recentEvict))]_vars

\* C6: an entry evicted from recent to make space is in recentEvict when the
\* operation completes; an entry evicted from frequent is not.
GhostTracking ==
    /\ last.evictedFrom = "recent" => InRecentEvict(last.evictedKey)
    /\ last.evictedFrom = "frequent" => ~InRecentEvict(last.evictedKey)

\* C9: no operation ends in a fatal runtime error, and between operations
\* every lock of the cache and of its stores is released.
AllLocks ==
    {cache.lock, cache.recent.lock, cache.frequent.lock, cache.recentEvict.lock}
LockRelease ==
    /\ status # "crashed"
    /\ \A m \in AllLocks : m = RWMutexZero

\* C10: construction fails exactly when size <= 0 or a ratio is outside
\* [0.0, 1.0]; otherwise it succeeds and the three stores are allocated.
ArgsValid(a) == a[1] >= 1 /\ a[2] >= 0 /\ a[2] <= 100 /\ a[3] >= 0 /\ a[3] <= 100
ConstructionValidation ==
    last.op \in {"New2Q", "New2QParams"} =>
        /\ (last.err # "nil") <=> ~ArgsValid(last.args)
        /\ ArgsValid(last.args) =>
              /\ status = "ready"
              /\ cache.recent.capacity > 0
              /\ cache.frequent.capacity > 0
              /\ cache.recentEvict.capacity > 0

\* C7: while a goroutine moves a key from recent to frequent, no other
\* goroutine's operation looks the key up and finds it in neither store.
AtomicPromotion == \A g \in Threads : ~loc[g].torn

\* C8: a Get never executes its body while another Get executes its body or
\* while another goroutine holds the cache's lock (as writer or as reader).
InGetBody(g) ==
    /\ loc[g].op = "Get"
    /\ pc[g] \in {"G_body", "G_unlock", "G_after", "P_lock", "P_body", "P_unlock"}
HoldsCacheLock(g) ==
    \/ pc[g] \in {"A_body", "A_unlock", "R_body", "R_unlock",
                  "C_body", "C_runlock", "K_body", "K_runlock"}
    \/ loc[g].op = "Add" /\ pc[g] \in {"P_lock", "P_body", "P_unlock"}
GetIsFullWriter ==
    \A g \in Threads : \A h \in Threads \ {g} :
        InGetBody(g) => ~(InGetBody(h) \/ HoldsCacheLock(h))

\* ------------------------------------------------- the bounded store alone
\* a store that so far only saw puts of capacity + 1 distinct keys
PutsFull == lruStore.fresh /\ Len(lruStore.puts) = lruStore.l.capacity + 1
NotFound == "not found in cache"

\* C11: putting capacity + 1 distinct keys into a new store evicts exactly the
\* first key put and no other; afterwards Get of that key returns the
\* not-found error and Keys returns the other keys from oldest to newest
LRUOrdering ==
    [][/\ (PutsFull' /\ last'.op = "Put")
           => /\ KeysOf(lruStore.l) \ KeysOf(lruStore'.l) = {lruStore'.puts[1]}
              /\ OrderOf(lruStore'.l) = Tail(lruStore'.puts)
       /\ (PutsFull /\ last'.op = "Keys") => last'.keys = Tail(lruStore.puts)
       /\ (PutsFull /\ last'.op = "Get" /\ last'.key = lruStore.puts[1])
           => last'.err = NotFound /\ last'.ret = Nil]_vars

\* C14: Remove on a store returns true exactly when the key was present, the
\* key is absent afterwards, and a Remove of an absent key changes nothing
RemoveResult ==
    [][(lruStore.kind # "none" /\ last'.op = "Remove")
         => /\ last'.ok <=> (last'.was = "store")
            /\ last'.key \notin KeysOf(lruStore'.l)
            /\ last'.was = "none" => lruStore'.l = lruStore.l]_vars

\* C16: in a store the key map and the list hold the same keys, every key
\* once in the list, and the list is never longer than the capacity
StoreConsistency ==
    LET l == lruStore.l
    IN /\ l.cache = KeysOf(l)
       /\ \A i \in 1..Len(l.list) : \A j \in 1..Len(l.list) :
            l.list[i].key = l.list[j].key => i = j
       /\ Len(l.list) <= l.capacity

StoreConsistencyWitness ==
    /\ lruStore.kind = "lru"
    /\ last.op = "RemoveOldest"
    /\ last.evictedFrom = "store"
    /\ Len(lruStore.l.list) = 1
    /\ lruStore.l.capacity = MaxSize

InKeys(keys, k) == \E i \in 1..Len(keys) : keys[i] = k
Held(t) == KeysOf(t.recent) \cup KeysOf(t.frequent)

\* C12: after Purge the three stores are empty and Len is 0, a Get of a key
\* the cache held before the Purge returns the not-found error, and a Purge
\* of a purged cache changes nothing
PurgeEmpties ==
    [][/\ (lruStore.kind = "none" /\ last'.op = "Purge")
           => /\ twoQueueLen(cache') = 0
              /\ cache'.recent.list = <<>> /\ cache'.recent.cache = {}
              /\ cache'.frequent.list = <<>> /\ cache'.frequent.cache = {}
              /\ cache'.recentEvict.list = <<>> /\ cache'.recentEvict.cache = {}
       /\ (lruStore.kind = "none" /\ last.op = "Purge" /\ last'.op = "Purge")
           => cache' = cache
       /\ (lruStore.kind = "none" /\ last.op = "Purge" /\ last'.op = "Get"
             /\ InKeys(last.keys, last'.key))
           => last'.err = NotFound]_vars

\* C13: Peek reports a key present, with its stored value, exactly when the
\* key is in frequent or in recent, which is when Contains is true; Peek and
\* Contains change the content and the order of no store
PeekResult ==
    [][/\ (lruStore.kind = "none" /\ last'.op = "Peek")
           => /\ last'.ok <=> (last'.was \in {"frequent", "recent"})
              /\ last'.ok <=> twoQueueContains(cache, last'.key)
              /\ last'.ok => last'.ret = last'.had
       /\ (lruStore.kind = "none" /\ last'.op \in {"Peek", "Contains"})
           => /\ cache'.recent = cache.recent
              /\ cache'.frequent = cache.frequent
              /\ cache'.recentEvict = cache.recentEvict]_vars

\* C15: recent never holds more than recentSize entries
RecentWithinRecentSize ==
    status = "ready" /\ lruStore.kind = "none"
        => lruLen(cache.recent) <= cache.recentSize

\* C15 as amended: recent is allocated with the capacity size, and never
\* holds more than size entries (recentSize is the target of ensureSpace)
RecentCapacity ==
    status = "ready" /\ lruStore.kind = "none"
        => /\ cache.recent.capacity = cache.size
           /\ lruLen(cache.recent) <= cache.size

RecentCapacityWitness ==
    /\ status = "ready"
    /\ lruStore.kind = "none"
    /\ last.op = "Add"
    /\ lruLen(cache.recent) = cache.size
    /\ cache.recentSize < cache.size

SeenTwice ==
    [][lruStore.kind = "none"
         => /\ \A k \in Keys :
                 (k \notin KeysOf(cache.frequent) /\ k \in KeysOf(cache'.frequent))
                   => /\ last'.op \in {"Add", "Get"}
                      /\ last'.key = k
                      /\ last'.was \in {"recent", "recentEvict"}
            /\ (last'.op = "Add" /\ last'.was = "none")
                 => /\ last'.key \in KeysOf(cache'.recent)
                    /\ ValueIn(cache'.recent, last'.key) = last'.value
                    /\ last'.key \notin KeysOf(cache'.frequent)
            /\ (last'.op = "Add" /\ last'.was = "recent")
                 => /\ last'.key \in KeysOf(cache'.frequent)
                    /\ ValueIn(cache'.frequent, last'.key) = last'.value
                    /\ last'.key \notin KeysOf(cache'.recent)
                    /\ twoQueueLen(cache') = twoQueueLen(cache)]_vars

\* both keys of a cache of two were added twice
SeenTwiceWitness ==
    /\ status = "ready"
    /\ last.op = "Add"
    /\ last.was = "recent"
    /\ Stored(cache, last.key) = last.value
    /\ lruLen(cache.frequent) = cache.size
    /\ lruLen(cache.recent) = 0

\* C20: no Put of Add makes recent or frequent evict on its own: a key leaves
\* recent and frequent only by the one eviction of ensureSpace in an Add of a
\* key the cache does not hold, by Remove of that key, or by Purge
NoSilentDrop ==
    [][lruStore.kind = "none"
         => /\ last'.op = "Add" => ~last'.dropped
            /\ \A k \in Held(cache) \ Held(cache') :
                 \/ last'.op = "Purge"
                 \/ last'.op = "Remove" /\ last'.key = k
                 \/ /\ last'.op = "Add"
                    /\ last'.was \in {"none", "recentEvict"}
                    /\ Held(cache) \ Held(cache') = {k}
                    /\ twoQueueLen(cache) >= cache.size
                    /\ k = EvictedKey(cache, ensureSpace(cache, last'.was # "none"),
                                      last'.key)]_vars

\* a new key went into a recent store filled to the capacity it was
\* allocated with, after ensureSpace made room
NoSilentDropWitness ==
    /\ status = "ready"
    /\ last.op = "Add"
    /\ last.was = "none"
    /\ last.evictedFrom = "recent"
    /\ ~last.dropped
    /\ lruLen(cache.recent) = cache.recent.capacity

====
